---- MODULE Spec2Model ----
(***************************************************************************)
(* Model of sld-backend/app.py: the Flask handlers add_child,              *)
(* create_assessment, submit_responses and analyze_assessment over the     *)
(* Firestore collections 'children' and 'assessments', and the scoring     *)
(* function calculate_sld_probabilities.                                   *)
(*                                                                         *)
(* Python values are modelled with a type tag where the code's behaviour   *)
(* depends on the type (None against dict, None or str against int).       *)
(* A response set (a dict 'q<i>' -> int) is a function from key strings    *)
(* to integers.  The floats of the scoring are exact quotients of small    *)
(* integers by 20 or 10 compared with 0.4, 0.65, 0.7 and 1.0; they are     *)
(* modelled as fractions <<numerator, denominator>> compared by cross      *)
(* multiplication, which orders them exactly as IEEE doubles do for        *)
(* sums below 2^53.                                                        *)
(*                                                                         *)
(* The development server is threaded: a handler that makes several store  *)
(* operations is one action per store operation, and pc/local hold each    *)
(* worker's position in its handler.                                       *)
(***************************************************************************)
EXTENDS Integers, Sequences, FiniteSets, TLC

VARIABLES
    assessments,  \* the 'assessments' collection: id -> document
    children,     \* the 'children' collection, in the order of the adds
    pc,           \* each worker's position in the handler it runs
    local,        \* each worker's local variables
    response,     \* the HTTP response the last step returned, if it returned one
    llm           \* the prompt the last step sent to the language model, if it sent one

vars == <<assessments, children, pc, local, response, llm>>

-----------------------------------------------------------------------------
(* Bounds of the model. *)

MaxAssessments == 1
MaxChildren == 2
MaxAnswers == 2

AssessmentIds == 1..MaxAssessments
\* The workers of the threaded server that serve requests at the same time.
Threads == {"w1", "w2"}

-----------------------------------------------------------------------------
(* Python values. *)

PyNone == [type |-> "NoneType"]
PyInt(n) == [type |-> "int", val |-> n]
PyStr(s) == [type |-> "str", val |-> s]
Dict(f) == [type |-> "dict", items |-> f]
EmptyItems == [k \in {} |-> 0]

\* Truthy with the test 'is not None' in place of truthiness.
Truthy_NotNone(x) == x.type = "dict"

\* bool(x) for the values a response field can hold: None and {} are falsy.
Truthy(x) == x.type = "dict" /\ DOMAIN x.items # {}

\* f'q{i}'
QKey(i) == "q" \o ToString(i)

\* dict.get(key, 0)
Get(d, key) == IF key \in DOMAIN d THEN d[key] ELSE 0

\* range(a, b)
Range(a, b) == a..(b - 1)

RECURSIVE SumOver(_, _)
\* sum([d.get(f'q{i}', 0) for i in questions])
SumOver(d, questions) ==
    IF questions = {} THEN 0
    ELSE LET i == CHOOSE j \in questions : TRUE
         IN  Get(d, QKey(i)) + SumOver(d, questions \ {i})

-----------------------------------------------------------------------------
(* Fractions standing for the floats of the scoring. *)

Frac(n, d) == <<n, d>>
FracLE(a, b) == a[1] * b[2] <= b[1] * a[2]
FracLT(a, b) == a[1] * b[2] < b[1] * a[2]
FracGE(a, b) == FracLE(b, a)

\* min(a, b): the first argument unless the second is smaller
FracMin(a, b) == IF FracLT(b, a) THEN b ELSE a

RECURSIVE FracMaxSeq(_)
\* max(values): the first of the largest
FracMaxSeq(s) ==
    IF Len(s) = 1 THEN s[1]
    ELSE LET m == FracMaxSeq(SubSeq(s, 1, Len(s) - 1))
         IN  IF FracLT(m, s[Len(s)]) THEN s[Len(s)] ELSE m

One == Frac(1, 1)
HighThreshold == Frac(7, 10)
MediumThreshold == Frac(4, 10)
ProfessionalThreshold == Frac(65, 100)

-----------------------------------------------------------------------------
(* Question categories. *)

\* PARENT_QUESTION_CATEGORIES with the reading range one question short.
PARENT_QUESTION_CATEGORIES_ShortReading ==
    [reading      |-> Range(1, 10),
     writing      |-> Range(11, 21),
     math         |-> Range(21, 31),
     attention    |-> Range(31, 41),
     memory       |-> Range(41, 51),
     motor_skills |-> Range(51, 61),
     social       |-> Range(61, 66)]

PARENT_QUESTION_CATEGORIES ==
    [reading      |-> Range(1, 11),
     writing      |-> Range(11, 21),
     math         |-> Range(21, 31),
     attention    |-> Range(31, 41),
     memory       |-> Range(41, 51),
     motor_skills |-> Range(51, 61),
     social       |-> Range(61, 66)]

TEACHER_QUESTION_CATEGORIES ==
    [reading   |-> Range(1, 10),
     writing   |-> Range(10, 19),
     math      |-> Range(19, 28),
     attention |-> Range(28, 37),
     behavior  |-> Range(37, 47),
     social    |-> Range(47, 53)]

-----------------------------------------------------------------------------
(* The scoring. *)

calculate_sld_probabilities(parent_responses, teacher_responses) ==
    LET reading_parent  == SumOver(parent_responses, PARENT_QUESTION_CATEGORIES.reading)
        reading_teacher == SumOver(teacher_responses, TEACHER_QUESTION_CATEGORIES.reading)
        math_parent     == SumOver(parent_responses, PARENT_QUESTION_CATEGORIES.math)
        math_teacher    == SumOver(teacher_responses, TEACHER_QUESTION_CATEGORIES.math)
        writing_parent  == SumOver(parent_responses, PARENT_QUESTION_CATEGORIES.writing)
        writing_teacher == SumOver(teacher_responses, TEACHER_QUESTION_CATEGORIES.writing)
        motor_parent    == SumOver(parent_responses, PARENT_QUESTION_CATEGORIES.motor_skills)
    IN  [dyslexia    |-> FracMin(Frac(reading_parent + reading_teacher, 20), One),
         dyscalculia |-> FracMin(Frac(math_parent + math_teacher, 20), One),
         dysgraphia  |-> FracMin(Frac(writing_parent + writing_teacher, 20), One),
         dyspraxia   |-> FracMin(Frac(motor_parent, 10), One)]

\* max(probabilities.values()), in the dict's insertion order
MaxProb(probabilities) ==
    FracMaxSeq(<<probabilities.dyslexia, probabilities.dyscalculia,
                 probabilities.dysgraphia, probabilities.dyspraxia>>)

\* RiskLevel with strict comparisons.
RiskLevel_Strict(max_prob) ==
    IF FracLT(HighThreshold, max_prob) THEN "high"
    ELSE IF FracLT(MediumThreshold, max_prob) THEN "medium"
    ELSE "low"

RiskLevel(max_prob) ==
    IF FracGE(max_prob, HighThreshold) THEN "high"
    ELSE IF FracGE(max_prob, MediumThreshold) THEN "medium"
    ELSE "low"

\* The results dict; generatedAt is left out.
Results(parent_responses, teacher_responses, recommendations) ==
    LET probabilities == calculate_sld_probabilities(parent_responses, teacher_responses)
        max_prob == MaxProb(probabilities)
    IN  [overallRisk |-> RiskLevel(max_prob),
         probabilities |-> probabilities,
         recommendations |-> recommendations,
         requiresProfessionalAssessment |-> FracGE(max_prob, ProfessionalThreshold)]

-----------------------------------------------------------------------------
(* The users collection and the callers.  register_user is not modelled:   *)
(* the collection holds one user per role value the claims talk about,     *)
(* "u_nodoc" is a verified uid without a user document, and "bad_token"    *)
(* is a request whose token verify_id_token rejects.                       *)

Uids == {"u_parent", "u_teacher", "u_admin", "u_norole", "u_nodoc"}
Callers == Uids \cup {"bad_token"}

\* db.collection('users').document(uid).get().to_dict()
UserDoc(uid) ==
    CASE uid = "u_parent"  -> [type |-> "dict", role |-> PyStr("parent")]
      [] uid = "u_teacher" -> [type |-> "dict", role |-> PyStr("teacher")]
      [] uid = "u_admin"   -> [type |-> "dict", role |-> PyStr("admin")]
      [] uid = "u_norole"  -> [type |-> "dict", role |-> PyNone]
      [] OTHER             -> PyNone

\* str.capitalize() on the role strings
Capitalize(s) ==
    CASE s = "parent"  -> "Parent"
      [] s = "teacher" -> "Teacher"
      [] s = "admin"   -> "Admin"
      [] OTHER         -> s

-----------------------------------------------------------------------------
(* Request inputs. *)

\* data.get('responses') of a submit request
SubmitChoices == {PyNone, Dict(EmptyItems), Dict("q1" :> 7)}

\* data.get('age') of an add_child request
AgeChoices == {PyNone, PyStr("ten"), PyInt(7), PyInt(8), PyInt(10), PyInt(12), PyInt(13)}

\* The text the language model answers with; its content decides nothing here.
Recommendations == <<"recommendation">>

-----------------------------------------------------------------------------
(* The document store. *)

NoDoc == [type |-> "missing"]
NoLocal == [handler |-> "none"]
NoResponse == [handler |-> "none"]
NoCall == [called |-> FALSE]

\* assessment_data of create_assessment; childId, createdBy and the
\* timestamps are left out, a results field that is not set is None.
NewAssessment ==
    [type |-> "dict",
     status |-> "pending",
     parentResponses |-> Dict(EmptyItems),
     teacherResponses |-> Dict(EmptyItems),
     results |-> PyNone]

\* The id Firestore gives the next added assessment.
NextAssessmentId == Cardinality({i \in AssessmentIds : assessments[i] # NoDoc}) + 1

Init ==
    /\ assessments = [i \in AssessmentIds |-> NoDoc]
    /\ children = <<>>
    /\ llm = NoCall
    /\ pc = [t \in Threads |-> "idle"]
    /\ local = [t \in Threads |-> NoLocal]
    /\ response = NoResponse

-----------------------------------------------------------------------------
(* add_child *)

\* AgeInRange with the upper limit one too high.
AgeInRange_UpTo13(age) == 8 <= age.val /\ age.val <= 13

AgeInRange(age) == 8 <= age.val /\ age.val <= 12

add_child(t, caller, age) ==
    /\ pc[t] = "idle"
    /\ UNCHANGED <<assessments, pc, local>>
    /\ llm' = NoCall
    /\ IF caller = "bad_token" \/ age.type # "int"
       THEN \* verify_id_token raises, or 8 <= age raises TypeError
            /\ response' = [handler |-> "add_child", code |-> 400, success |-> FALSE,
                            error |-> "exception"]
            /\ UNCHANGED children
       ELSE IF ~AgeInRange(age)
       THEN /\ response' = [handler |-> "add_child", code |-> 400, success |-> FALSE,
                            error |-> "Child age must be between 8 and 12 years"]
            /\ UNCHANGED children
       ELSE /\ Len(children) < MaxChildren
            /\ children' = Append(children, [parentId |-> caller, age |-> age])
            /\ response' = [handler |-> "add_child", code |-> 201, success |-> TRUE,
                            childId |-> Len(children) + 1]

-----------------------------------------------------------------------------
(* create_assessment *)

create_assessment(t, caller) ==
    /\ pc[t] = "idle"
    /\ UNCHANGED <<children, pc, local>>
    /\ llm' = NoCall
    /\ IF caller = "bad_token"
       THEN /\ response' = [handler |-> "create_assessment", code |-> 400,
                            success |-> FALSE]
            /\ UNCHANGED assessments
       ELSE /\ NextAssessmentId \in AssessmentIds
            /\ assessments' = [assessments EXCEPT ![NextAssessmentId] = NewAssessment]
            /\ response' = [handler |-> "create_assessment", code |-> 201,
                            success |-> TRUE, assessmentId |-> NextAssessmentId]

-----------------------------------------------------------------------------
(* submit_responses *)

SubmitError ==
    [handler |-> "submit_responses", code |-> 400, success |-> FALSE,
     stored |-> "none", message |-> "exception"]

SubmitSuccess(role, stored) ==
    [handler |-> "submit_responses", code |-> 200, success |-> TRUE,
     stored |-> stored,
     message |-> Capitalize(role) \o " responses submitted successfully"]

\* Lines 171-194 and, for a role that is neither parent nor teacher, 201-207.
submit_responses(t, caller, id, responses) ==
    /\ pc[t] = "idle"
    /\ UNCHANGED children
    /\ llm' = NoCall
    /\ IF caller = "bad_token" \/ UserDoc(caller) = PyNone
       THEN \* verify_id_token raises, or user.get on None raises
            /\ response' = SubmitError
            /\ UNCHANGED <<assessments, pc, local>>
       ELSE LET role == UserDoc(caller).role IN
            IF role = PyStr("parent")
            THEN IF assessments[id] = NoDoc
                 THEN \* update of a missing document raises NotFound
                      /\ response' = SubmitError
                      /\ UNCHANGED <<assessments, pc, local>>
                 ELSE /\ assessments' = [assessments EXCEPT
                              ![id].parentResponses = responses,
                              ![id].status = "parent_completed"]
                      /\ response' = SubmitSuccess(role.val, "parentResponses")
                      /\ UNCHANGED <<pc, local>>
            ELSE IF role = PyStr("teacher")
            THEN IF assessments[id] = NoDoc
                 THEN /\ response' = SubmitError
                      /\ UNCHANGED <<assessments, pc, local>>
                 ELSE /\ assessments' = [assessments EXCEPT
                              ![id].teacherResponses = responses]
                      /\ pc' = [pc EXCEPT ![t] = "teacher_read"]
                      /\ local' = [local EXCEPT ![t] =
                              [handler |-> "submit_responses", id |-> id,
                               role |-> role.val]]
                      /\ response' = NoResponse
            ELSE IF role = PyNone
            THEN \* role.capitalize() on None raises AttributeError
                 /\ response' = SubmitError
                 /\ UNCHANGED <<assessments, pc, local>>
            ELSE /\ response' = SubmitSuccess(role.val, "none")
                 /\ UNCHANGED <<assessments, pc, local>>

\* Lines 196-198 and, when the check fails, 201-204.
submit_teacher_read(t) ==
    /\ pc[t] = "teacher_read"
    /\ UNCHANGED <<assessments, children>>
    /\ llm' = NoCall
    /\ LET assessment == assessments[local[t].id] IN
       IF Truthy(assessment.parentResponses) /\ Truthy(assessment.teacherResponses)
       THEN /\ pc' = [pc EXCEPT ![t] = "teacher_update"]
            /\ response' = NoResponse
            /\ UNCHANGED local
       ELSE /\ pc' = [pc EXCEPT ![t] = "idle"]
            /\ local' = [local EXCEPT ![t] = NoLocal]
            /\ response' = SubmitSuccess(local[t].role, "teacherResponses")

\* Lines 199-204.
submit_teacher_update(t) ==
    /\ pc[t] = "teacher_update"
    /\ UNCHANGED children
    /\ llm' = NoCall
    /\ assessments' = [assessments EXCEPT ![local[t].id].status = "ready_for_analysis"]
    /\ pc' = [pc EXCEPT ![t] = "idle"]
    /\ local' = [local EXCEPT ![t] = NoLocal]
    /\ response' = SubmitSuccess(local[t].role, "teacherResponses")

-----------------------------------------------------------------------------
(* analyze_assessment *)

\* An error response of analyze_assessment; assessment_id is the id of the
\* request's path, which the response answers.
AnalyzeError(id, code, error) ==
    [handler |-> "analyze_assessment", assessment_id |-> id, code |-> code,
     success |-> FALSE, error |-> error]

\* The prompt of lines 278-292, by the values it is built from.
Prompt(results) ==
    [called |-> TRUE, probabilities |-> results.probabilities,
     risk_level |-> results.overallRisk]

\* Lines 250-296: the read, the checks, the scoring and the model call.
analyze_assessment(t, id, llm_ok) ==
    /\ pc[t] = "idle"
    /\ UNCHANGED <<assessments, children>>
    /\ LET assessment == assessments[id] IN
       IF assessment = NoDoc
       THEN /\ response' = AnalyzeError(id, 404, "Assessment not found")
            /\ llm' = NoCall
            /\ UNCHANGED <<pc, local>>
       ELSE IF ~Truthy(assessment.parentResponses) \/ ~Truthy(assessment.teacherResponses)
       THEN /\ response' = AnalyzeError(id, 400, "Both parent and teacher responses required")
            /\ llm' = NoCall
            /\ UNCHANGED <<pc, local>>
       ELSE LET results == Results(assessment.parentResponses.items,
                                   assessment.teacherResponses.items,
                                   Recommendations)
            IN  /\ llm' = Prompt(results)
                /\ IF llm_ok
                   THEN /\ pc' = [pc EXCEPT ![t] = "analyze_store"]
                        /\ local' = [local EXCEPT ![t] =
                                [handler |-> "analyze_assessment", id |-> id,
                                 results |-> results]]
                        /\ response' = NoResponse
                   ELSE \* generate_content raises
                        /\ response' = AnalyzeError(id, 500, "exception")
                        /\ UNCHANGED <<pc, local>>

\* Lines 298-316.
analyze_store(t) ==
    /\ pc[t] = "analyze_store"
    /\ UNCHANGED children
    /\ llm' = NoCall
    /\ assessments' = [assessments EXCEPT
            ![local[t].id].results = local[t].results,
            ![local[t].id].status = "analyzed"]
    /\ pc' = [pc EXCEPT ![t] = "idle"]
    /\ local' = [local EXCEPT ![t] = NoLocal]
    /\ response' = [handler |-> "analyze_assessment", assessment_id |-> local[t].id,
                    code |-> 200, success |-> TRUE, results |-> local[t].results]

-----------------------------------------------------------------------------

AddChild == \E t \in Threads, caller \in {"u_parent", "u_teacher", "bad_token"},
              age \in AgeChoices :
                add_child(t, caller, age)
CreateAssessment == \E t \in Threads, caller \in {"u_parent", "bad_token"} :
                        create_assessment(t, caller)
SubmitResponses == \E t \in Threads, caller \in Callers, id \in AssessmentIds,
                      responses \in SubmitChoices :
                        submit_responses(t, caller, id, responses)
SubmitTeacherRead == \E t \in Threads : submit_teacher_read(t)
SubmitTeacherUpdate == \E t \in Threads : submit_teacher_update(t)
AnalyzeAssessment == \E t \in Threads, id \in AssessmentIds, llm_ok \in BOOLEAN :
                        analyze_assessment(t, id, llm_ok)
AnalyzeStore == \E t \in Threads : analyze_store(t)

\* The assessment handlers.  No handler touches both collections, so the
\* children collection is checked under its own specification below.
Next ==
    \/ CreateAssessment
    \/ SubmitResponses
    \/ SubmitTeacherRead
    \/ SubmitTeacherUpdate
    \/ AnalyzeAssessment
    \/ AnalyzeStore

Spec == Init /\ [][Next]_vars

\* The children collection alone.
NextChildren == AddChild

SpecChildren == Init /\ [][NextChildren]_vars

-----------------------------------------------------------------------------
(* The analysis over a range of response sets: one assessment to which a   *)
(* parent and then a teacher have submitted, analysed by one worker.       *)

\* The questions answered: on both sides of the category boundaries.
ParentKeys == {"q1", "q10", "q11", "q21", "q31", "q51", "q60"}
TeacherKeys == {"q1", "q9", "q10", "q19", "q28"}
AnswerValues == {-1, 0, 4, 7, 13}

\* The response sets over keys with at most n answers.
DictsOver(keys, n) ==
    UNION {[S -> AnswerValues] : S \in {T \in SUBSET keys : Cardinality(T) <= n}}

\* The assessment after submit_responses by a parent and then by a teacher.
Submitted(pr, tr) ==
    [NewAssessment EXCEPT
        !.parentResponses = Dict(pr),
        !.teacherResponses = Dict(tr),
        !.status = IF Truthy(Dict(pr)) /\ Truthy(Dict(tr))
                   THEN "ready_for_analysis" ELSE "parent_completed"]

InitCalc ==
    /\ \E pr \in DictsOver(ParentKeys, MaxAnswers) :
       \E tr \in DictsOver(TeacherKeys, MaxAnswers - Cardinality(DOMAIN pr)) :
            assessments = [i \in AssessmentIds |->
                                IF i = 1 THEN Submitted(pr, tr) ELSE NoDoc]
    /\ children = <<>>
    /\ pc = [t \in Threads |-> "idle"]
    /\ local = [t \in Threads |-> NoLocal]
    /\ response = NoResponse
    /\ llm = NoCall

AnalyzeOne == \E id \in AssessmentIds, llm_ok \in BOOLEAN :
                    analyze_assessment("w1", id, llm_ok)
StoreOne == analyze_store("w1")

NextCalc ==
    \/ AnalyzeOne
    \/ StoreOne

SpecCalc == InitCalc /\ [][NextCalc]_vars

-----------------------------------------------------------------------------
(* Properties. *)

\* The assessments that exist and hold results.
Analyzed == {id \in AssessmentIds :
                assessments[id] # NoDoc /\ assessments[id].results # PyNone}

\* The result sets visible in a state: the stored ones and the returned one.
VisibleResults ==
    {assessments[id].results : id \in Analyzed}
    \cup (IF response.handler = "analyze_assessment" /\ response.code = 200
          THEN {response.results} ELSE {})

\* The four probabilities of a result set.
Probs(r) == {r.probabilities.dyslexia, r.probabilities.dyscalculia,
             r.probabilities.dysgraphia, r.probabilities.dyspraxia}

\* m is the largest of the probabilities of r.
IsMax(m, r) == m \in Probs(r) /\ \A p \in Probs(r) : p[1] * m[2] <= m[1] * p[2]

\* C1: the overallRisk stored and returned by analyze_assessment is one of
\* low, medium, high, and with m the maximum of the four probabilities it is
\* high iff m >= 0.7, medium iff 0.4 <= m < 0.7 and low iff m < 0.4.
C1_RiskTier ==
    \A r \in VisibleResults : \A m \in Probs(r) :
        IsMax(m, r) =>
            /\ r.overallRisk \in {"low", "medium", "high"}
            /\ r.overallRisk = "high" <=> 10 * m[1] >= 7 * m[2]
            /\ r.overallRisk = "medium" <=>
                    (10 * m[1] >= 4 * m[2] /\ 10 * m[1] < 7 * m[2])
            /\ r.overallRisk = "low" <=> 10 * m[1] < 4 * m[2]

\* Results are stored whose maximum probability is exactly 0.7, with risk high.
C1_Witness ==
    \E id \in Analyzed : \E m \in Probs(assessments[id].results) :
        /\ IsMax(m, assessments[id].results)
        /\ 10 * m[1] = 7 * m[2]
        /\ assessments[id].results.overallRisk = "high"

\* C2: each of the four values calculate_sld_probabilities returns for integer
\* answers lies between 0 and 1 inclusive.
C2_ProbabilityRange ==
    \A r \in VisibleResults : \A p \in Probs(r) :
        0 <= p[1] /\ p[1] <= p[2]

\* The answers of response set d to questions lo..hi, missing ones left out.
RECURSIVE RubricSum(_, _, _)
RubricSum(d, lo, hi) ==
    IF lo > hi THEN 0
    ELSE (IF QKey(hi) \in DOMAIN d THEN d[QKey(hi)] ELSE 0) + RubricSum(d, lo, hi - 1)

\* p is min(s / k, 1).
IsClamped(p, s, k) == IF s >= k THEN p[1] = p[2] ELSE p[1] * k = s * p[2]

\* C3: the probabilities calculate_sld_probabilities returns are those of the
\* fixed rubric over the parent and teacher question ranges, a missing answer
\* counting 0; no other answer changes them.
C3_Rubric ==
    \A id \in Analyzed :
        LET pr == assessments[id].parentResponses.items
            tr == assessments[id].teacherResponses.items
            p  == assessments[id].results.probabilities
        IN  /\ IsClamped(p.dyslexia, RubricSum(pr, 1, 10) + RubricSum(tr, 1, 9), 20)
            /\ IsClamped(p.dysgraphia, RubricSum(pr, 11, 20) + RubricSum(tr, 10, 18), 20)
            /\ IsClamped(p.dyscalculia, RubricSum(pr, 21, 30) + RubricSum(tr, 19, 27), 20)
            /\ IsClamped(p.dyspraxia, RubricSum(pr, 51, 60), 10)

\* Results are stored for a parent who answered the last reading question and
\* a teacher who answered a question of no scored category.
C3_Witness ==
    \E id \in Analyzed :
        /\ "q10" \in DOMAIN assessments[id].parentResponses.items
        /\ assessments[id].parentResponses.items["q10"] = 7
        /\ "q28" \in DOMAIN assessments[id].teacherResponses.items
        /\ assessments[id].teacherResponses.items["q28"] = 13
        /\ assessments[id].results.probabilities.dyslexia = Frac(7, 20)

\* A response field holds a response set with at least one answer.
NonEmpty(x) == x.type = "dict" /\ x.items # EmptyItems

\* An assessment that analyze_assessment must reject with 400.
Incomplete(a) == a # NoDoc /\ (~NonEmpty(a.parentResponses) \/ ~NonEmpty(a.teacherResponses))

\* A step in which analyze_assessment has read assessment id: it either
\* answers at once or goes on to store results.
AnalyzeReads(id) ==
    \/ /\ response'.handler = "analyze_assessment"
       /\ response'.code # 200
       /\ response'.assessment_id = id
    \/ \E t \in Threads :
            pc[t] = "idle" /\ pc'[t] = "analyze_store" /\ local'[t].id = id

\* C4: analyze_assessment answers 404 for an assessment that does not exist
\* and 400 for one of which a response set is empty or absent, in both cases
\* changing no stored assessment and not calling the language model; it calls
\* the model and stores results only for an assessment it read with both
\* response sets non-empty.
C4_AnalyzeRejects ==
    [][/\ \A id \in AssessmentIds :
            (AnalyzeReads(id) /\ (assessments[id] = NoDoc \/ Incomplete(assessments[id]))) =>
                /\ response'.handler = "analyze_assessment"
                /\ response'.code = IF assessments[id] = NoDoc THEN 404 ELSE 400
                /\ assessments' = assessments
                /\ llm' = NoCall
                /\ pc' = pc
       /\ llm'.called =>
            \E id \in AssessmentIds :
                /\ AnalyzeReads(id)
                /\ assessments[id] # NoDoc /\ ~Incomplete(assessments[id])
       /\ \A id \in AssessmentIds :
            (assessments[id] # NoDoc /\ assessments'[id].results # assessments[id].results)
                => \E t \in Threads : pc[t] = "analyze_store" /\ local[t].id = id
      ]_vars

\* analyze_assessment has answered 400 for an assessment with parent
\* responses and without teacher responses, which holds no results.
C4_Witness ==
    /\ response.handler = "analyze_assessment"
    /\ response.code = 400
    /\ llm = NoCall
    /\ \E id \in AssessmentIds :
        /\ assessments[id] # NoDoc
        /\ NonEmpty(assessments[id].parentResponses)
        /\ ~NonEmpty(assessments[id].teacherResponses)
        /\ assessments[id].results = PyNone

\* The age of the request is an integer from 8 to 12.
AgeAccepted(age) == age \in {PyInt(8), PyInt(9), PyInt(10), PyInt(11), PyInt(12)}

\* C5: add_child adds a child record and answers 201 only for an age with
\* 8 <= age <= 12; for any other age, a missing one included, it answers 400
\* and adds no record.
C5_AgeValidated ==
    [][\A t \in Threads, caller \in Callers, age \in AgeChoices :
            add_child(t, caller, age) =>
                /\ response'.code = 201 <=> children' # children
                /\ children' # children =>
                        /\ AgeAccepted(age)
                        /\ children' = Append(children, [parentId |-> caller, age |-> age])
                /\ ~AgeAccepted(age) => response'.code = 400 /\ children' = children
      ]_vars

\* A child of age 8 has been stored with answer 201.
C5_Witness ==
    /\ response.handler = "add_child"
    /\ response.code = 201
    /\ Len(children) > 0
    /\ children[Len(children)].age = PyInt(8)

\* C6: once a parent and a teacher have both submitted non-empty responses to
\* an assessment that is not analyzed, its status is ready_for_analysis, in
\* whichever order they submitted.  Stated when no request is in progress,
\* for the assessments that hold both submissions.
C6_ReadyWhenBothSubmitted ==
    (\A t \in Threads : pc[t] = "idle") =>
        \A id \in AssessmentIds :
            (/\ assessments[id] # NoDoc
             /\ assessments[id].results = PyNone
             /\ NonEmpty(assessments[id].parentResponses)
             /\ NonEmpty(assessments[id].teacherResponses))
                => assessments[id].status = "ready_for_analysis"

\* C7: a submit_responses that answers success (200) has written the
\* submitted responses as parentResponses or teacherResponses.
C7_SuccessMeansStored ==
    (response.handler = "submit_responses" /\ response.code = 200)
        => response.stored \in {"parentResponses", "teacherResponses"}

\* C8: an assessment whose status is ready_for_analysis has non-empty
\* parentResponses and non-empty teacherResponses, in every reachable state.
C8_ReadyHasBoth ==
    \A id \in AssessmentIds :
        (assessments[id] # NoDoc /\ assessments[id].status = "ready_for_analysis")
            => /\ NonEmpty(assessments[id].parentResponses)
               /\ NonEmpty(assessments[id].teacherResponses)

====
